---- MODULE Spec2Model ----
(***************************************************************************)
(* Model of the OpenAI <-> Claude compatibility layer:                     *)
(*   - the streaming response pipeline of server.ts                        *)
(*     (handleStreamingResponse, its ReadableStream and the backend        *)
(*     event generator of claude-client.ts), specification Spec;           *)
(*   - the request path (handleChatCompletions and                         *)
(*     MessageTranslator.openaiToClaudeRequest), specification SpecRequest;*)
(*   - the unary response path (handleNonStreamingResponse and             *)
(*     MessageTranslator.claudeToOpenaiResponse), specification SpecUnary; *)
(*   - the earlier translator with its model renaming table                *)
(*     (mapOpenAIModelToClaude), specification SpecEarlier.                *)
(*                                                                         *)
(* JavaScript values are tagged records: Undef, Str(s), Arr(a), Bool(b),   *)
(* Num(n).  Strings that the code trims or joins are sequences of          *)
(* one-character strings; strings that are only compared are TLA+ strings. *)
(* The wall-clock field `created` of chunks is left out.                   *)
(***************************************************************************)
EXTENDS Integers, Sequences, FiniteSets

VARIABLES
    \* ---- streaming pipeline (server.ts handleStreamingResponse) ----
    pc,            \* position of start(controller): "idle" | "awaiting" | "finished"
    messageId,     \* the id built from crypto.randomUUID()
    uuidCalls,     \* number of crypto.randomUUID() calls made for the response
    requestModel,  \* openaiRequest.model handed to the streaming handler
    events,        \* backend events delivered to the for-await loop, in order
    nextCalls,     \* number of next() requests made on the backend generator
    backend,       \* "notcalled" | "open" | "ended" | "failed" | "released"
    stream,        \* internal slots of the ReadableStream handed to the caller
    cancelled,     \* the caller cancelled the stream while it was readable
    emitted,       \* items accepted by controller.enqueue, in order
    received,      \* items the caller has read
    \* ---- request path (server.ts handleChatCompletions, translator.ts) ----
    openaiRequest, \* the parsed request body
    rpc,           \* "new" | "translated" | "rejected" | "dispatched" | "responded"
    claudeRequest, \* result of the translator (a request, a throw, or NoRequest)
    response,      \* HTTP response of handleChatCompletions, or NoResponse
    backendCalls,  \* sequence of backend call modes made for the request
    claudeResponse \* the Anthropic.Message the unary backend call resolved with

svars == <<pc, messageId, uuidCalls, requestModel, events, nextCalls, backend,
           stream, cancelled, emitted, received>>
rvars == <<openaiRequest, rpc, claudeRequest, response, backendCalls,
           claudeResponse>>
vars == <<svars, rvars>>

-----------------------------------------------------------------------------
\* Bounds of the model
MaxEvents == 4
MaxMsgs == 3
MaxBlocks == 3

-----------------------------------------------------------------------------
\* JavaScript values
Undef == [t |-> "undefined"]
Str(s) == [t |-> "string", v |-> s]
Arr(a) == [t |-> "array", v |-> a]
Bool(b) == [t |-> "boolean", v |-> b]
Num(n) == [t |-> "number", v |-> n]
Null == [t |-> "null"]
NotIterable == [t |-> "object"]

-----------------------------------------------------------------------------
\* Backend stream events (Anthropic.MessageStreamEvent)
MessageStart == [type |-> "message_start", delta |-> Undef]
MessageStop == [type |-> "message_stop", delta |-> Undef]
Ping == [type |-> "ping", delta |-> Undef]
ContentBlockDelta(dtype, text) ==
    [type |-> "content_block_delta", delta |-> [type |-> dtype, text |-> text]]

StreamEvents ==
    { MessageStart, MessageStop, Ping,
      ContentBlockDelta("text_delta", Str("Hel")),
      ContentBlockDelta("text_delta", Str("lo")),
      ContentBlockDelta("text_delta", Str("")),
      ContentBlockDelta("input_json_delta", Str("x")) }

MessageIds == {"chatcmpl-1", "chatcmpl-2"}
RequestModels == {"claude-sonnet-4-20250514"}
BackendErrors == {"BackendError"}

NoChunk == [kind |-> "null"]
DoneSentinel == [kind |-> "sse", data |-> "[DONE]"]

\* translator.ts claudeStreamToOpenaiChunk: the OpenAIStreamChunk literal
StreamChunk(id, model, role, content, finish) ==
    [kind |-> "chunk", id |-> id, object |-> "chat.completion.chunk",
     model |-> model, index |-> 0,
     delta |-> [role |-> role, content |-> content],
     finish_reason |-> finish]

\* JavaScript truthiness of event.delta.text
TextTruthy(text) == text.t = "string" /\ text.v # ""

\* Variant: a content_block_delta is forwarded whatever its delta type and text
claudeStreamToOpenaiChunkAnyDelta(event, model, id) ==
    CASE event.type = "message_start" ->
            StreamChunk(id, model, Str("assistant"), Undef, Null)
      [] event.type = "content_block_delta" ->
            StreamChunk(id, model, Undef, event.delta.text, Null)
      [] event.type = "message_stop" ->
            StreamChunk(id, model, Undef, Undef, Str("stop"))
      [] OTHER -> NoChunk

\* Variant: content chunks get an id of their own instead of the response's
claudeStreamToOpenaiChunkOwnId(event, model, id) ==
    CASE event.type = "message_start" ->
            StreamChunk(id, model, Str("assistant"), Undef, Null)
      [] event.type = "content_block_delta" ->
            IF event.delta.type = "text_delta" /\ TextTruthy(event.delta.text)
            THEN StreamChunk("chatcmpl-chunk", model, Undef, event.delta.text, Null)
            ELSE NoChunk
      [] event.type = "message_stop" ->
            StreamChunk(id, model, Undef, Undef, Str("stop"))
      [] OTHER -> NoChunk

\* translator.ts claudeStreamToOpenaiChunk
claudeStreamToOpenaiChunk(event, model, id) ==
    CASE event.type = "message_start" ->
            StreamChunk(id, model, Str("assistant"), Undef, Null)
      [] event.type = "content_block_delta" ->
            IF event.delta.type = "text_delta" /\ TextTruthy(event.delta.text)
            THEN StreamChunk(id, model, Undef, event.delta.text, Null)
            ELSE NoChunk
      [] event.type = "message_stop" ->
            StreamChunk(id, model, Undef, Undef, Str("stop"))
      [] OTHER -> NoChunk

-----------------------------------------------------------------------------
\* The ReadableStream handed to the caller (server.ts: new ReadableStream({start}))
\* Its underlying source defines start only: no pull, no cancel.
NewReadableStream ==
    [state |-> "readable", closeRequested |-> FALSE, queue |-> <<>>,
     storedError |-> "none"]

NoStream ==
    [state |-> "none", closeRequested |-> FALSE, queue |-> <<>>,
     storedError |-> "none"]

\* controller.enqueue throws a TypeError unless this holds
CanCloseOrEnqueue(s) == ~s.closeRequested /\ s.state = "readable"

\* controller.enqueue(item) on a stream that accepts it: the queue has no
\* high-water mark that blocks the producer
ControllerEnqueue(s, item) == [s EXCEPT !.queue = Append(@, item)]

\* controller.close(): the stream closes once its queue is drained
ControllerClose(s) ==
    IF s.queue = <<>>
    THEN [s EXCEPT !.closeRequested = TRUE, !.state = "closed"]
    ELSE [s EXCEPT !.closeRequested = TRUE]

\* controller.error(e): a no-op unless the stream is readable; drops the queue
ControllerError(s, e) ==
    IF s.state # "readable"
    THEN s
    ELSE [s EXCEPT !.state = "errored", !.queue = <<>>, !.storedError = e]

\* reader.read() taking the head of the queue
StreamRead(s) ==
    LET rest == Tail(s.queue)
    IN  IF rest = <<>> /\ s.closeRequested
        THEN [s EXCEPT !.queue = rest, !.state = "closed"]
        ELSE [s EXCEPT !.queue = rest]

\* stream.cancel() on a readable stream: closes it and resets the queue; the
\* underlying source has no cancel callback, so the producer is not told
StreamCancel(s) == [s EXCEPT !.state = "closed", !.queue = <<>>]

-----------------------------------------------------------------------------
\* Streaming pipeline actions

\* server.ts handleStreamingResponse: builds the id, constructs the stream;
\* start(controller) runs to its first await, the first next() on the generator
HandleStreamingResponse(id, model) ==
    /\ pc = "idle"
    /\ messageId' = id
    /\ uuidCalls' = uuidCalls + 1
    /\ requestModel' = model
    /\ stream' = NewReadableStream
    /\ backend' = "open"
    /\ nextCalls' = 1
    /\ pc' = "awaiting"
    /\ UNCHANGED <<events, cancelled, emitted, received>>

\* One iteration of the for-await loop: the generator yields an event, the
\* event is translated and its chunk (if any) enqueued, and the loop asks for
\* the next event.  A throwing enqueue leaves the loop (the generator is
\* returned) and reaches the catch block, whose controller.error is a no-op
\* on a stream that is no longer readable.
BackendYield(event) ==
    /\ pc = "awaiting"
    /\ backend = "open"
    /\ Len(events) < MaxEvents
    /\ events' = Append(events, event)
    /\ LET chunk == claudeStreamToOpenaiChunk(event, requestModel, messageId)
       IN  IF chunk = NoChunk
           THEN /\ nextCalls' = nextCalls + 1
                /\ UNCHANGED <<pc, backend, stream, emitted>>
           ELSE IF CanCloseOrEnqueue(stream)
           THEN /\ stream' = ControllerEnqueue(stream, chunk)
                /\ emitted' = Append(emitted, chunk)
                /\ nextCalls' = nextCalls + 1
                /\ UNCHANGED <<pc, backend>>
           ELSE /\ backend' = "released"
                /\ stream' = ControllerError(stream, "TypeError")
                /\ pc' = "finished"
                /\ UNCHANGED <<nextCalls, emitted>>
    /\ UNCHANGED <<messageId, uuidCalls, requestModel, cancelled, received>>

\* The generator completes: the loop ends, the sentinel is enqueued and the
\* stream closed; a throwing enqueue reaches the catch block
BackendEnd ==
    /\ pc = "awaiting"
    /\ backend = "open"
    /\ backend' = "ended"
    /\ pc' = "finished"
    /\ IF CanCloseOrEnqueue(stream)
       THEN /\ stream' = ControllerClose(ControllerEnqueue(stream, DoneSentinel))
            /\ emitted' = Append(emitted, DoneSentinel)
       ELSE /\ stream' = ControllerError(stream, "TypeError")
            /\ UNCHANGED emitted
    /\ UNCHANGED <<messageId, uuidCalls, requestModel, events, nextCalls,
                   cancelled, received>>

\* Variant: the catch block ends the stream as if it had completed
BackendFailSwallowed(err) ==
    /\ pc = "awaiting"
    /\ backend = "open"
    /\ backend' = "failed"
    /\ pc' = "finished"
    /\ IF CanCloseOrEnqueue(stream)
       THEN /\ stream' = ControllerClose(ControllerEnqueue(stream, DoneSentinel))
            /\ emitted' = Append(emitted, DoneSentinel)
       ELSE UNCHANGED <<stream, emitted>>
    /\ UNCHANGED <<messageId, uuidCalls, requestModel, events, nextCalls,
                   cancelled, received>>

\* The backend call or the event sequence fails: the catch block errors the stream
BackendFail(err) ==
    /\ pc = "awaiting"
    /\ backend = "open"
    /\ backend' = "failed"
    /\ pc' = "finished"
    /\ stream' = ControllerError(stream, err)
    /\ UNCHANGED <<messageId, uuidCalls, requestModel, events, nextCalls,
                   cancelled, emitted, received>>

\* The caller reads one item of the response body
ConsumerRead ==
    /\ stream.state = "readable"
    /\ stream.queue # <<>>
    /\ received' = Append(received, Head(stream.queue))
    /\ stream' = StreamRead(stream)
    /\ UNCHANGED <<pc, messageId, uuidCalls, requestModel, events, nextCalls,
                   backend, cancelled, emitted>>

\* The caller closes the response body early (client disconnect)
ConsumerCancel ==
    /\ stream.state = "readable"
    /\ stream' = StreamCancel(stream)
    /\ cancelled' = TRUE
    /\ UNCHANGED <<pc, messageId, uuidCalls, requestModel, events, nextCalls,
                   backend, emitted, received>>

-----------------------------------------------------------------------------
\* Request translation (translator.ts openaiToClaudeRequest)

\* String.prototype.trim on a sequence of characters
IsSpace(c) == c \in {" ", "\n", "\t"}

RECURSIVE TrimStart(_)
TrimStart(s) ==
    IF s # <<>> /\ IsSpace(Head(s)) THEN TrimStart(Tail(s)) ELSE s

RECURSIVE TrimEnd(_)
TrimEnd(s) ==
    IF s # <<>> /\ IsSpace(s[Len(s)]) THEN TrimEnd(SubSeq(s, 1, Len(s) - 1)) ELSE s

Trim(s) == TrimEnd(TrimStart(s))

BlankLine == <<"\n", "\n">>

\* One system message folded into systemMessage (translator.ts lines 31-32);
\* an empty accumulator is falsy
CombineSystem(systemMessage, content) ==
    LET trimmedContent == Trim(content)
    IN  IF systemMessage # <<>>
        THEN systemMessage \o BlankLine \o trimmedContent
        ELSE trimmedContent

\* The loop over messages, system part
RECURSIVE SystemMessageOf(_, _)
SystemMessageOf(messages, systemMessage) ==
    IF messages = <<>> THEN systemMessage
    ELSE SystemMessageOf(Tail(messages),
            IF Head(messages).role = "system"
            THEN CombineSystem(systemMessage, Head(messages).content)
            ELSE systemMessage)

\* The loop over messages, turn part: claudeMessages.push({role, content.trim()})
RECURSIVE ClaudeMessagesOf(_)
ClaudeMessagesOf(messages) ==
    IF messages = <<>> THEN <<>>
    ELSE LET m == Head(messages)
         IN  IF m.role = "user" \/ m.role = "assistant"
             THEN <<[role |-> m.role, content |-> Trim(m.content)]>>
                    \o ClaudeMessagesOf(Tail(messages))
             ELSE ClaudeMessagesOf(Tail(messages))

\* Variant: no filtering of blank turns (the earlier translator)
IsValidClaudeMessageAlways(msg) == TRUE

\* The filter predicate of validClaudeMessages
IsValidClaudeMessage(msg) == msg.content # <<>> /\ Len(Trim(msg.content)) > 0

RECURSIVE ValidClaudeMessagesOf(_)
ValidClaudeMessagesOf(claudeMessages) ==
    IF claudeMessages = <<>> THEN <<>>
    ELSE IF IsValidClaudeMessage(Head(claudeMessages))
         THEN <<Head(claudeMessages)>> \o ValidClaudeMessagesOf(Tail(claudeMessages))
         ELSE ValidClaudeMessagesOf(Tail(claudeMessages))

\* max_tokens = 4096 in the destructuring
DefaultMaxTokens == 4096

\* Variant: the range 0..2 of the OpenAI protocol instead of 0..1
Clamp02(x) ==
    LET lo == IF x.v < 20 THEN x.v ELSE 20
    IN  Num(IF lo > 0 THEN lo ELSE 0)

\* Math.max(0, Math.min(1, x)); numbers are counted in tenths
Clamp01(x) ==
    LET lo == IF x.v < 10 THEN x.v ELSE 10
    IN  Num(IF lo > 0 THEN lo ELSE 0)

\* if (stop) ... Array.isArray(stop) ? stop : [stop]
StopSequencesOf(stop) ==
    IF stop.t = "undefined" \/ (stop.t = "string" /\ stop.v = "")
    THEN Undef
    ELSE IF stop.t = "array" THEN stop ELSE Arr(<<stop.v>>)

\* Variant: `stream: stream || false` in the object literal (the earlier
\* translator)
StreamFieldCopied(req) == Bool(req.stream = Bool(TRUE))

\* The `stream` member of the object literal claudeRequest: there is none
StreamFieldOf(req) == Undef

TypeErrorThrown == [kind |-> "throw", error |-> "TypeError"]

\* String.prototype.startsWith
StartsWith(s, prefix) ==
    Len(s) >= Len(prefix) /\ SubSeq(s, 1, Len(prefix)) = prefix

\* The earlier translator's modelMap; "" stands for a missing key
ModelMapLookup(name) ==
    CASE name = "gpt-4" -> "claude-3-5-sonnet-20241022"
      [] name = "gpt-4-turbo" -> "claude-3-5-sonnet-20241022"
      [] name = "gpt-4o" -> "claude-3-5-sonnet-20241022"
      [] name = "gpt-3.5-turbo" -> "claude-3-5-haiku-20241022"
      [] name = "claude-3-5-sonnet" -> "claude-3-5-sonnet-20241022"
      [] name = "claude-3-5-haiku" -> "claude-3-5-haiku-20241022"
      [] name = "claude-3-opus" -> "claude-3-opus-20240229"
      [] name = "claude-3-sonnet" -> "claude-3-sonnet-20240229"
      [] name = "claude-3-haiku" -> "claude-3-haiku-20240307"
      [] name = "claude-sonnet-4" -> "claude-sonnet-4-20250514"
      [] name = "claude-4" -> "claude-sonnet-4-20250514"
      [] OTHER -> ""

\* The earlier translator's mapOpenAIModelToClaude: names starting with
\* "claude-" are returned before the table is consulted
mapOpenAIModelToClaude(openaiModel) ==
    IF StartsWith(openaiModel, "claude-")
    THEN openaiModel
    ELSE IF ModelMapLookup(openaiModel) # ""
         THEN ModelMapLookup(openaiModel)
         ELSE "claude-3-5-sonnet-20241022"

\* Variant: `model: claudeModel`, the renamed model of the earlier translator
ModelFieldMapped(req) ==
    IF req.model.t = "string" THEN Str(mapOpenAIModelToClaude(req.model.v))
    ELSE req.model

\* `model: model` in the object literal claudeRequest
ModelFieldOf(req) == req.model

\* translator.ts openaiToClaudeRequest
openaiToClaudeRequest(req) ==
    IF req.messages.t # "array"
    THEN TypeErrorThrown
    ELSE LET systemMessage == SystemMessageOf(req.messages.v, <<>>)
         IN  [kind |-> "request",
              model |-> ModelFieldOf(req),
              max_tokens |-> IF req.max_tokens = Undef
                             THEN Num(DefaultMaxTokens) ELSE req.max_tokens,
              messages |-> ValidClaudeMessagesOf(ClaudeMessagesOf(req.messages.v)),
              system |-> IF systemMessage # <<>> THEN Str(systemMessage) ELSE Undef,
              temperature |-> IF req.temperature # Undef
                              THEN Clamp01(req.temperature) ELSE Undef,
              top_p |-> IF req.top_p # Undef THEN Clamp01(req.top_p) ELSE Undef,
              stop_sequences |-> StopSequencesOf(req.stop),
              stream |-> StreamFieldOf(req)]

-----------------------------------------------------------------------------
\* Request handling (server.ts handleChatCompletions)

ErrorResponse(status, message) ==
    [kind |-> "json", status |-> status, error |-> message]
EventStreamResponse == [kind |-> "event-stream", status |-> 200, error |-> "none"]
PendingResponse == [kind |-> "pending", status |-> 0, error |-> "none"]

\* !openaiRequest.messages || !Array.isArray(openaiRequest.messages)
MessagesNotArray(req) == req.messages.t # "array"

\* !openaiRequest.model || typeof openaiRequest.model !== "string"
ModelNotString(req) == req.model.t # "string" \/ req.model.v = ""

\* if (openaiRequest.stream)
StreamRequested(req) == req.stream = Bool(TRUE)

\* The outcome of handleChatCompletions up to the dispatch to the unary or the
\* streaming handler: the response returned so far, the translated request
\* (if the translator was reached) and the backend calls made
Dispatch(req, translated) ==
    IF translated.kind = "throw"
    THEN [rpc |-> "rejected", response |-> ErrorResponse(500, translated.error),
          claudeRequest |-> translated, backendCalls |-> <<>>]
    ELSE IF StreamRequested(req)
    THEN [rpc |-> "dispatched", response |-> EventStreamResponse,
          claudeRequest |-> translated, backendCalls |-> <<"stream">>]
    ELSE [rpc |-> "dispatched", response |-> PendingResponse,
          claudeRequest |-> translated, backendCalls |-> <<"unary">>]

\* Variant: the backend is called before the request is validated
RejectedAfterCall(message) ==
    [rpc |-> "rejected", response |-> ErrorResponse(400, message),
     claudeRequest |-> [kind |-> "none"], backendCalls |-> <<"unary">>]

\* A validation failure: the 400 response is returned at once
Rejected(message) ==
    [rpc |-> "rejected", response |-> ErrorResponse(400, message),
     claudeRequest |-> [kind |-> "none"], backendCalls |-> <<>>]

\* Variant: the earlier handler (server.ts lines 355-389), which checks only
\* that messages is an array
handleChatCompletionsEarlier(req) ==
    IF MessagesNotArray(req)
    THEN Rejected("messages field is required and must be an array")
    ELSE Dispatch(req, openaiToClaudeRequest(req))

\* server.ts handleChatCompletions (lines 51-130)
handleChatCompletions(req) ==
    IF MessagesNotArray(req)
    THEN Rejected("messages field is required and must be an array")
    ELSE IF Len(req.messages.v) = 0
    THEN Rejected("messages array cannot be empty")
    ELSE IF ModelNotString(req)
    THEN Rejected("model field is required and must be a string")
    ELSE Dispatch(req, openaiToClaudeRequest(req))

\* The translator applied to a request by any caller
Translate ==
    /\ rpc = "new"
    /\ claudeRequest' = openaiToClaudeRequest(openaiRequest)
    /\ rpc' = "translated"
    /\ UNCHANGED <<openaiRequest, response, backendCalls, claudeResponse>>

\* A POST /v1/chat/completions handled up to the dispatch
HandleChatCompletions ==
    /\ rpc = "new"
    /\ LET out == handleChatCompletions(openaiRequest)
       IN  /\ rpc' = out.rpc
           /\ response' = out.response
           /\ claudeRequest' = out.claudeRequest
           /\ backendCalls' = out.backendCalls
    /\ UNCHANGED <<openaiRequest, claudeResponse>>

\* Inputs
Roles == {"system", "user", "assistant"}
Contents == { <<>>, <<" ">>, <<"a", " ", "c">>, <<" ", "b", "\n">> }
Messages == [role : Roles, content : Contents]
MessageSeqs(n) == UNION { [1..k -> Messages] : k \in 0..n }

ModelValues ==
    { Undef, Str(""), Str("claude-sonnet-4-20250514"), Str("gpt-4"), Num(7) }
MaxTokensValues == { Undef, Num(256) }
TemperatureValues == { Undef, Num(-2), Num(4), Num(15) }
TopPValues == { Undef, Num(-3), Num(5), Num(12) }
StopValues == { Undef, Str(""), Str("END"), Arr(<<>>), Arr(<<"A", "B">>) }
StreamValues == { Undef, Bool(TRUE), Bool(FALSE) }

\* Message lists of up to MaxMsgs messages with the plain options, and
\* message lists of up to MaxMsgsWithOptions messages (and the values that
\* are no list) with every combination of the options
MaxMsgsWithOptions == 1

PlainRequests ==
    { [messages |-> Arr(ms), model |-> Str("claude-sonnet-4-20250514"),
       max_tokens |-> Undef, temperature |-> Undef, top_p |-> Undef,
       stop |-> Undef, stream |-> Undef] : ms \in MessageSeqs(MaxMsgs) }

OptionRequests ==
    [messages : { Arr(ms) : ms \in MessageSeqs(MaxMsgsWithOptions) }
                  \cup { Undef, NotIterable },
     model : ModelValues, max_tokens : MaxTokensValues,
     temperature : TemperatureValues, top_p : TopPValues,
     stop : StopValues, stream : StreamValues]

Requests == PlainRequests \cup OptionRequests

-----------------------------------------------------------------------------
\* Request path placeholders
NoRequest == [kind |-> "none"]
NoResponse == [kind |-> "none"]

RequestIdle ==
    /\ openaiRequest = NoRequest
    /\ rpc = "idle"
    /\ claudeRequest = NoRequest
    /\ response = NoResponse
    /\ backendCalls = <<>>
    /\ claudeResponse = NoResponse

StreamIdle ==
    /\ pc = "idle"
    /\ messageId = "none"
    /\ uuidCalls = 0
    /\ requestModel = "none"
    /\ events = <<>>
    /\ nextCalls = 0
    /\ backend = "notcalled"
    /\ stream = NoStream
    /\ cancelled = FALSE
    /\ emitted = <<>>
    /\ received = <<>>

-----------------------------------------------------------------------------
\* Specification of the streaming pipeline
Init == StreamIdle /\ RequestIdle

Next ==
    \/ \E id \in MessageIds, model \in RequestModels :
          HandleStreamingResponse(id, model) /\ UNCHANGED rvars
    \/ \E event \in StreamEvents : BackendYield(event) /\ UNCHANGED rvars
    \/ BackendEnd /\ UNCHANGED rvars
    \/ \E err \in BackendErrors : BackendFail(err) /\ UNCHANGED rvars
    \/ ConsumerRead /\ UNCHANGED rvars
    \/ ConsumerCancel /\ UNCHANGED rvars

Spec == Init /\ [][Next]_vars

-----------------------------------------------------------------------------
\* Specification of the request path
InitRequest ==
    /\ StreamIdle
    /\ openaiRequest \in Requests
    /\ rpc = "new"
    /\ claudeRequest = NoRequest
    /\ response = NoResponse
    /\ backendCalls = <<>>
    /\ claudeResponse = NoResponse

NextRequest ==
    \/ Translate /\ UNCHANGED svars
    \/ HandleChatCompletions /\ UNCHANGED svars

SpecRequest == InitRequest /\ [][NextRequest]_vars

-----------------------------------------------------------------------------
\* The earlier translator (openaiToClaudeRequest with the renaming table)

\* The loop over messages, system part: the last system message wins
RECURSIVE EarlierSystemMessageOf(_, _)
EarlierSystemMessageOf(messages, systemMessage) ==
    IF messages = <<>> THEN systemMessage
    ELSE EarlierSystemMessageOf(Tail(messages),
            IF Head(messages).role = "system"
            THEN Head(messages).content ELSE systemMessage)

\* The loop over messages, turn part: contents are pushed as they are
EarlierClaudeMessagesOf(messages) ==
    SelectSeq(messages, LAMBDA m : m.role = "user" \/ m.role = "assistant")

openaiToClaudeRequestEarlier(req) ==
    IF req.messages.t # "array" \/ req.model.t # "string"
    THEN TypeErrorThrown
    ELSE LET systemMessage == EarlierSystemMessageOf(req.messages.v, <<>>)
         IN  [kind |-> "request",
              model |-> Str(mapOpenAIModelToClaude(req.model.v)),
              max_tokens |-> IF req.max_tokens = Undef
                             THEN Num(DefaultMaxTokens) ELSE req.max_tokens,
              messages |-> EarlierClaudeMessagesOf(req.messages.v),
              system |-> IF systemMessage # <<>> THEN Str(systemMessage) ELSE Undef,
              temperature |-> IF req.temperature # Undef
                              THEN Clamp01(req.temperature) ELSE Undef,
              top_p |-> IF req.top_p # Undef THEN Clamp01(req.top_p) ELSE Undef,
              stop_sequences |-> StopSequencesOf(req.stop),
              stream |-> Bool(req.stream = Bool(TRUE))]

\* The earlier translator applied to a request
TranslateEarlier ==
    /\ rpc = "new"
    /\ claudeRequest' = openaiToClaudeRequestEarlier(openaiRequest)
    /\ rpc' = "translated"
    /\ UNCHANGED <<openaiRequest, response, backendCalls, claudeResponse>>

ModelNames ==
    { "gpt-4", "gpt-4-turbo", "gpt-4o", "gpt-4o-mini", "gpt-4.1", "gpt-3.5-turbo",
      "claude-4", "claude-sonnet-4", "claude-3-5-sonnet",
      "claude-sonnet-4-20250514", "claude-3-5-sonnet-20241022",
      "claude-3-5-haiku-20241022", "llama-3", "" }

EarlierRequests ==
    [messages : { Arr(ms) : ms \in MessageSeqs(MaxMsgsWithOptions) },
     model : { Str(name) : name \in ModelNames },
     max_tokens : {Undef}, temperature : {Undef}, top_p : {Undef},
     stop : {Undef}, stream : StreamValues]

InitEarlier ==
    /\ StreamIdle
    /\ openaiRequest \in EarlierRequests
    /\ rpc = "new"
    /\ claudeRequest = NoRequest
    /\ response = NoResponse
    /\ backendCalls = <<>>
    /\ claudeResponse = NoResponse

NextEarlier == TranslateEarlier /\ UNCHANGED svars

SpecEarlier == InitEarlier /\ [][NextEarlier]_vars

-----------------------------------------------------------------------------
\* Response translation (translator.ts claudeToOpenaiResponse)

\* Variant: a stop reason that is not recognised maps to null
mapClaudeStopReasonOrNull(claudeStopReason) ==
    CASE claudeStopReason = Str("end_turn") -> Str("stop")
      [] claudeStopReason = Str("max_tokens") -> Str("length")
      [] claudeStopReason = Str("stop_sequence") -> Str("stop")
      [] OTHER -> Null

\* translator.ts mapClaudeStopReason
mapClaudeStopReason(claudeStopReason) ==
    CASE claudeStopReason = Str("end_turn") -> Str("stop")
      [] claudeStopReason = Str("max_tokens") -> Str("length")
      [] claudeStopReason = Str("stop_sequence") -> Str("stop")
      [] OTHER -> Str("stop")

\* .filter((block) => block.type === "text")
TextBlocksOf(content) == SelectSeq(content, LAMBDA block : block.type = "text")

\* .map((block) => block.text).join(""): join writes undefined as ""
RECURSIVE JoinedText(_)
JoinedText(blocks) ==
    IF blocks = <<>> THEN <<>>
    ELSE (IF Head(blocks).text.t = "string" THEN Head(blocks).text.v ELSE <<>>)
            \o JoinedText(Tail(blocks))

\* Variant: every block's text is trimmed before the join
RECURSIVE JoinedTrimmedText(_)
JoinedTrimmedText(blocks) ==
    IF blocks = <<>> THEN <<>>
    ELSE (IF Head(blocks).text.t = "string" THEN Trim(Head(blocks).text.v) ELSE <<>>)
            \o JoinedTrimmedText(Tail(blocks))

ContentOfTrimEach(content) == JoinedTrimmedText(TextBlocksOf(content))

\* const content = claudeResponse.content.filter(...).map(...).join("").trim()
ContentOf(content) == Trim(JoinedText(TextBlocksOf(content)))

\* Variant: the total is the one the backend reports, when it reports one
UsageOfReportedTotal(usage) ==
    [prompt_tokens |-> usage.input_tokens,
     completion_tokens |-> usage.output_tokens,
     total_tokens |-> IF usage.total_tokens # Undef THEN usage.total_tokens.v
                      ELSE usage.input_tokens + usage.output_tokens]

\* usage: { prompt_tokens, completion_tokens, total_tokens }
UsageOf(usage) ==
    [prompt_tokens |-> usage.input_tokens,
     completion_tokens |-> usage.output_tokens,
     total_tokens |-> usage.input_tokens + usage.output_tokens]

\* translator.ts claudeToOpenaiResponse
claudeToOpenaiResponse(resp, model) ==
    [kind |-> "completion", id |-> resp.id, object |-> "chat.completion",
     model |-> model, index |-> 0,
     message |-> [role |-> "assistant", content |-> ContentOf(resp.content)],
     finish_reason |-> mapClaudeStopReason(resp.stop_reason),
     usage |-> UsageOf(resp.usage)]

JsonResponse(body) ==
    [kind |-> "json", status |-> 200, error |-> "none", body |-> body]

\* server.ts handleNonStreamingResponse: createMessage resolves, the result is
\* translated with the model the caller asked for and returned
CreateMessageResolves(result) ==
    /\ rpc = "dispatched"
    /\ backendCalls = <<"unary">>
    /\ claudeResponse' = result
    /\ response' = JsonResponse(claudeToOpenaiResponse(result, openaiRequest.model.v))
    /\ rpc' = "responded"
    /\ UNCHANGED <<openaiRequest, claudeRequest, backendCalls>>

\* server.ts handleNonStreamingResponse: createMessage rejects
CreateMessageRejects(err) ==
    /\ rpc = "dispatched"
    /\ backendCalls = <<"unary">>
    /\ response' = ErrorResponse(500, err)
    /\ rpc' = "responded"
    /\ UNCHANGED <<openaiRequest, claudeRequest, backendCalls, claudeResponse>>

\* Backend results (Anthropic.Message)
ContentBlocks ==
    { [type |-> "text", text |-> Str(<<"a", " ">>)],
      [type |-> "text", text |-> Str(<<" ", "b">>)],
      [type |-> "text", text |-> Undef],
      [type |-> "tool_use", text |-> Str(<<"x">>)] }
ContentSeqs(n) == UNION { [1..k -> ContentBlocks] : k \in 0..n }
StopReasons ==
    { Str("end_turn"), Str("max_tokens"), Str("stop_sequence"), Null,
      Str("unknown_future_value") }
Usages ==
    [input_tokens : {0, 10}, output_tokens : {5, 7}, total_tokens : {Undef, Num(99)}]
ClaudeResponses ==
    [id : {"msg_01"}, model : {"claude-3-5-sonnet-20241022"},
     content : ContentSeqs(MaxBlocks), stop_reason : StopReasons, usage : Usages]

UnaryRequests ==
    { [messages |-> Arr(<<[role |-> "user", content |-> <<"a", " ", "c">>]>>),
       model |-> Str(m), max_tokens |-> Undef, temperature |-> Undef,
       top_p |-> Undef, stop |-> Undef, stream |-> st] :
         m \in {"claude-sonnet-4-20250514", "gpt-4"}, st \in {Undef, Bool(FALSE)} }

\* Specification of the unary path
InitUnary ==
    /\ StreamIdle
    /\ openaiRequest \in UnaryRequests
    /\ rpc = "new"
    /\ claudeRequest = NoRequest
    /\ response = NoResponse
    /\ backendCalls = <<>>
    /\ claudeResponse = NoResponse

NextUnary ==
    \/ HandleChatCompletions /\ UNCHANGED svars
    \/ /\ rpc = "dispatched"
       /\ \E result \in ClaudeResponses : CreateMessageResolves(result)
       /\ UNCHANGED svars
    \/ \E err \in BackendErrors : CreateMessageRejects(err) /\ UNCHANGED svars

SpecUnary == InitUnary /\ [][NextUnary]_vars

-----------------------------------------------------------------------------
\* Claims about the streaming pipeline

\* The event sequences C1 speaks of: message_start, then deltas and other
\* event types, then message_stop
WellFormedEvents(evs) ==
    /\ Len(evs) >= 2
    /\ evs[1].type = "message_start"
    /\ evs[Len(evs)].type = "message_stop"
    /\ \A i \in 2..(Len(evs) - 1) :
          evs[i].type \notin {"message_start", "message_stop"}

RoleChunkOf(id, model) ==
    [kind |-> "chunk", id |-> id, object |-> "chat.completion.chunk",
     model |-> model, index |-> 0,
     delta |-> [role |-> Str("assistant"), content |-> Undef],
     finish_reason |-> Null]

ContentChunkOf(id, model, text) ==
    [kind |-> "chunk", id |-> id, object |-> "chat.completion.chunk",
     model |-> model, index |-> 0,
     delta |-> [role |-> Undef, content |-> Str(text)],
     finish_reason |-> Null]

TerminalChunkOf(id, model) ==
    [kind |-> "chunk", id |-> id, object |-> "chat.completion.chunk",
     model |-> model, index |-> 0,
     delta |-> [role |-> Undef, content |-> Undef],
     finish_reason |-> Str("stop")]

IsTextDelta(ev) ==
    /\ ev.type = "content_block_delta"
    /\ ev.delta.type = "text_delta"
    /\ ev.delta.text.t = "string"
    /\ ev.delta.text.v # ""

RECURSIVE ContentChunksOf(_, _, _)
ContentChunksOf(evs, id, model) ==
    IF evs = <<>> THEN <<>>
    ELSE IF IsTextDelta(Head(evs))
         THEN <<ContentChunkOf(id, model, Head(evs).delta.text.v)>>
                \o ContentChunksOf(Tail(evs), id, model)
         ELSE ContentChunksOf(Tail(evs), id, model)

ExpectedOutput(evs, id, model) ==
    <<RoleChunkOf(id, model)>> \o ContentChunksOf(evs, id, model)
        \o <<TerminalChunkOf(id, model), DoneSentinel>>

\* C1: for a backend sequence message_start, (deltas and other events)*,
\* message_stop that completes while the caller keeps the stream open, the
\* items emitted are exactly: the role chunk, one content chunk per non-empty
\* text delta in order, the terminal chunk, the [DONE] sentinel; nothing else
\* is emitted and the stream is not errored.
C1_StreamOutput ==
    (pc = "finished" /\ backend = "ended" /\ ~cancelled /\ WellFormedEvents(events))
        => /\ emitted = ExpectedOutput(events, messageId, requestModel)
           /\ stream.state # "errored"

C1_Witness ==
    /\ pc = "finished" /\ backend = "ended" /\ ~cancelled
    /\ events = <<MessageStart, ContentBlockDelta("text_delta", Str("Hel")),
                  ContentBlockDelta("text_delta", Str("lo")), MessageStop>>
    /\ Len(emitted) = 5
    /\ received = emitted

\* C2: the id is generated once, before any event is consumed, and every
\* chunk emitted for the response carries it.
C2_SingleId ==
    /\ pc = "idle" => uuidCalls = 0 /\ events = <<>> /\ nextCalls = 0
    /\ pc # "idle" => uuidCalls = 1
    /\ \A i \in DOMAIN emitted :
          emitted[i].kind = "chunk" => emitted[i].id = messageId

C2_Witness ==
    /\ messageId = "chatcmpl-2"
    /\ Len(emitted) >= 3
    /\ \E i \in DOMAIN emitted :
          emitted[i].kind = "chunk" /\ emitted[i].delta.content # Undef
    /\ \E i \in DOMAIN emitted :
          emitted[i].kind = "chunk" /\ emitted[i].finish_reason = Str("stop")

\* The state once the backend has failed under a caller that still holds the
\* stream open: handler finished, no sentinel, stream errored with the failure
C3_FailureState ==
    (backend = "failed" /\ ~cancelled)
        => /\ pc = "finished"
           /\ stream.state = "errored"
           /\ stream.storedError \in BackendErrors
           /\ \A i \in DOMAIN emitted : emitted[i] # DoneSentinel

\* C3: when the backend fails while the caller still holds the stream open,
\* the handler is finished, the sentinel was never emitted, the stream is
\* errored with that failure; afterwards nothing more is emitted and the
\* stream stays errored (it is never closed).
C3_FailurePropagates ==
    /\ [](C3_FailureState)
    /\ [][backend = "failed" =>
            /\ emitted' = emitted
            /\ stream'.state = stream.state
            /\ stream'.storedError = stream.storedError]_vars

C3_Witness ==
    /\ backend = "failed" /\ ~cancelled
    /\ Len(emitted) >= 2
    /\ stream.state = "errored"
    /\ stream.storedError = "BackendError"

\* C4 (as claimed): once the caller has cancelled, the loop makes no further
\* next() request on the backend and nothing more is enqueued.
C4_NoPullAfterCancel ==
    [][cancelled => nextCalls' = nextCalls /\ emitted' = emitted]_vars

\* C5 (as claimed): at most one chunk is ever held unconsumed between the
\* backend and the caller.
C5_OneInFlight == Len(stream.queue) <= 1

-----------------------------------------------------------------------------
\* Claims about the request path

SystemContents(messages) ==
    LET sys == SelectSeq(messages, LAMBDA m : m.role = "system")
    IN  [i \in 1..Len(sys) |-> Trim(sys[i].content)]

RECURSIVE JoinWithBlankLine(_)
JoinWithBlankLine(parts) ==
    IF Len(parts) = 0 THEN <<>>
    ELSE IF Len(parts) = 1 THEN parts[1]
    ELSE parts[1] \o BlankLine \o JoinWithBlankLine(Tail(parts))

Translated == rpc = "translated" /\ claudeRequest.kind = "request"

\* The text of the `system` field, an absent field counted as the empty text
SystemText(req) == IF req.system = Undef THEN <<>> ELSE req.system.v

\* C6 (as claimed): with at least one system message, `system` is the trimmed
\* contents of all system messages joined by one blank line, in order, also
\* when some of them trim to the empty string.
C6_SystemJoined ==
    (Translated /\ Len(SystemContents(openaiRequest.messages.v)) >= 1)
        => SystemText(claudeRequest)
             = JoinWithBlankLine(SystemContents(openaiRequest.messages.v))

ExpectedTurns(messages) ==
    LET kept == SelectSeq(messages,
                    LAMBDA m : m.role \in {"user", "assistant"}
                               /\ Trim(m.content) # <<>>)
    IN  [i \in 1..Len(kept) |-> [role |-> kept[i].role, content |-> Trim(kept[i].content)]]

\* C7: the turns are the user/assistant messages whose trimmed content is
\* non-empty, in order, role kept and content trimmed; no turn is empty or
\* starts or ends with white space.
C7_Turns ==
    Translated
        => /\ claudeRequest.messages = ExpectedTurns(openaiRequest.messages.v)
           /\ \A i \in DOMAIN claudeRequest.messages :
                LET turn == claudeRequest.messages[i]
                IN  /\ turn.role \in {"user", "assistant"}
                    /\ turn.content # <<>>
                    /\ ~IsSpace(turn.content[1])
                    /\ ~IsSpace(turn.content[Len(turn.content)])

C7_Witness ==
    /\ Translated
    /\ openaiRequest.messages.v =
         << [role |-> "system", content |-> <<"a", " ", "c">>],
            [role |-> "user", content |-> <<" ">>],
            [role |-> "assistant", content |-> <<" ", "b", "\n">>] >>
    /\ claudeRequest.messages = << [role |-> "assistant", content |-> <<"b">>] >>

\* C8: whatever the stream flag, the translated request carries no `stream`
\* field; the flag only selects the backend call made by the handler.
C8_NoStreamField ==
    /\ claudeRequest.kind = "request" => claudeRequest.stream = Undef
    /\ rpc = "dispatched" =>
         backendCalls = IF openaiRequest.stream = Bool(TRUE)
                        THEN <<"stream">> ELSE <<"unary">>

C8_Witness ==
    /\ rpc = "dispatched"
    /\ openaiRequest.stream = Bool(TRUE)
    /\ claudeRequest.kind = "request"
    /\ backendCalls = <<"stream">>

ValidationError(message) == [kind |-> "throw", error |-> message]

EmptyOrNoList(req) == req.messages.t # "array" \/ req.messages.v = <<>>
MissingModel(req) == req.model = Undef \/ req.model = Str("")

\* C9 (as claimed): the translator fails with a ValidationError on an empty
\* or non-list message sequence and on a missing or empty model.
C9_TranslatorValidates ==
    rpc = "translated" =>
        /\ EmptyOrNoList(openaiRequest) =>
             claudeRequest = ValidationError("messages must be a non-empty array")
        /\ (~EmptyOrNoList(openaiRequest) /\ MissingModel(openaiRequest)) =>
             claudeRequest = ValidationError("model must be a non-empty string")

\* C9 (amended): the request handler rejects such requests with a 400
\* response before the translator is called, so that no translated request
\* is produced and no backend call made.
C9_HandlerRejects ==
    rpc \in {"rejected", "dispatched"} =>
        /\ EmptyOrNoList(openaiRequest) =>
             /\ response = ErrorResponse(400,
                    IF openaiRequest.messages.t # "array"
                    THEN "messages field is required and must be an array"
                    ELSE "messages array cannot be empty")
             /\ claudeRequest = NoRequest
             /\ backendCalls = <<>>
        /\ (~EmptyOrNoList(openaiRequest)
              /\ (MissingModel(openaiRequest) \/ openaiRequest.model.t # "string")) =>
             /\ response = ErrorResponse(400,
                    "model field is required and must be a string")
             /\ claudeRequest = NoRequest
             /\ backendCalls = <<>>

C9_Witness ==
    /\ rpc = "rejected"
    /\ openaiRequest.messages = Arr(<<>>)
    /\ openaiRequest.model = Str("")
    /\ response.status = 400

\* C10 (as claimed): stop_sequences is present exactly when stop is; a single
\* string s (the empty string too) gives [s], a sequence gives itself.
C10_StopSequences ==
    Translated =>
        /\ (claudeRequest.stop_sequences = Undef) <=> (openaiRequest.stop = Undef)
        /\ openaiRequest.stop.t = "string" =>
             claudeRequest.stop_sequences = Arr(<<openaiRequest.stop.v>>)
        /\ openaiRequest.stop.t = "array" =>
             claudeRequest.stop_sequences = openaiRequest.stop

Saturated(x) == IF x < 0 THEN 0 ELSE IF x > 10 THEN 10 ELSE x

\* C11: temperature and top_p are present in the translated request exactly
\* when present in the input, and then equal the input saturated into [0,1]
\* (counted in tenths: 0..10); no request is rejected for such a value.
C11_Clamped ==
    /\ Translated =>
         /\ (claudeRequest.temperature = Undef) <=> (openaiRequest.temperature = Undef)
         /\ openaiRequest.temperature # Undef =>
              claudeRequest.temperature = Num(Saturated(openaiRequest.temperature.v))
         /\ (claudeRequest.top_p = Undef) <=> (openaiRequest.top_p = Undef)
         /\ openaiRequest.top_p # Undef =>
              claudeRequest.top_p = Num(Saturated(openaiRequest.top_p.v))
    /\ rpc = "rejected" =>
         \/ EmptyOrNoList(openaiRequest)
         \/ MissingModel(openaiRequest)
         \/ openaiRequest.model.t # "string"

C11_Witness ==
    /\ Translated
    /\ openaiRequest.temperature = Num(15) /\ claudeRequest.temperature = Num(10)
    /\ openaiRequest.top_p = Num(-3) /\ claudeRequest.top_p = Num(0)

-----------------------------------------------------------------------------
\* Claims about the unary response

Responded == rpc = "responded" /\ response.status = 200

\* C12: prompt_tokens = input_tokens, completion_tokens = output_tokens and
\* total_tokens is their sum, whatever total the backend reports.
C12_Usage ==
    Responded =>
        LET usage == response.body.usage
        IN  /\ usage.prompt_tokens = claudeResponse.usage.input_tokens
            /\ usage.completion_tokens = claudeResponse.usage.output_tokens
            /\ usage.total_tokens = usage.prompt_tokens + usage.completion_tokens

C12_Witness ==
    /\ Responded
    /\ claudeResponse.usage =
         [input_tokens |-> 10, output_tokens |-> 5, total_tokens |-> Num(99)]
    /\ response.body.usage.total_tokens = 15

\* C13: max_tokens maps to "length", every other stop reason (end_turn,
\* stop_sequence, null, unrecognised strings) to "stop"; the result is never
\* null or "content_filter" and the translation never fails.
C13_StopReason ==
    /\ Responded =>
         response.body.finish_reason =
            IF claudeResponse.stop_reason = Str("max_tokens")
            THEN Str("length") ELSE Str("stop")
    /\ (rpc = "responded" /\ claudeResponse # NoResponse) => response.status = 200

C13_Witness ==
    /\ Responded
    /\ claudeResponse.stop_reason = Str("unknown_future_value")
    /\ response.body.finish_reason = Str("stop")

RECURSIVE ExpectedText(_)
ExpectedText(content) ==
    IF content = <<>> THEN <<>>
    ELSE IF Head(content).type = "text" /\ Head(content).text # Undef
         THEN Head(content).text.v \o ExpectedText(Tail(content))
         ELSE ExpectedText(Tail(content))

\* C14: the message content is the text of the text blocks, concatenated in
\* order with no separator and trimmed once at the end; other blocks add
\* nothing and the translation never fails.
C14_Content ==
    /\ Responded =>
         LET content == response.body.message.content
         IN  /\ content = Trim(ExpectedText(claudeResponse.content))
             /\ content # <<>> =>
                  ~IsSpace(content[1]) /\ ~IsSpace(content[Len(content)])
    /\ (rpc = "responded" /\ claudeResponse # NoResponse) => response.status = 200

C14_Witness ==
    /\ Responded
    /\ claudeResponse.content =
         << [type |-> "text", text |-> Str(<<"a", " ">>)],
            [type |-> "tool_use", text |-> Str(<<"x">>)],
            [type |-> "text", text |-> Str(<<" ", "b">>)] >>
    /\ response.body.message.content = <<"a", " ", " ", "b">>

-----------------------------------------------------------------------------
\* Claims about the model name

FullClaudeIds ==
    { "claude-sonnet-4-20250514", "claude-3-5-sonnet-20241022",
      "claude-3-5-haiku-20241022" }

\* C16 (as claimed): the renaming function maps every gpt-4* name to
\* claude-3-5-sonnet-20241022, gpt-3.5-turbo to claude-3-5-haiku-20241022,
\* the aliases claude-4 and claude-sonnet-4 to claude-sonnet-4-20250514, and
\* returns full Claude model ids unchanged.
C16_ModelMapping ==
    Translated =>
        LET name == openaiRequest.model.v
            out == claudeRequest.model.v
        IN  /\ StartsWith(name, "gpt-4") => out = "claude-3-5-sonnet-20241022"
            /\ name = "gpt-3.5-turbo" => out = "claude-3-5-haiku-20241022"
            /\ name \in {"claude-4", "claude-sonnet-4"} =>
                 out = "claude-sonnet-4-20250514"
            /\ name \in FullClaudeIds => out = name

-----------------------------------------------------------------------------
\* Claims about the order of chunks and of validation

IsRoleChunk(item) == item.kind = "chunk" /\ item.delta.role = Str("assistant")
IsTerminalChunk(item) == item.kind = "chunk" /\ item.finish_reason = Str("stop")
Count(seq, Test(_)) == Cardinality({ i \in 1..Len(seq) : Test(seq[i]) })

\* C17 (as claimed): every chunk comes from an event at or after the first
\* message_start and at or before the first message_stop: the first chunk is the
\* role chunk, no chunk follows the terminal chunk, and there is at most one
\* role chunk and at most one terminal chunk.
C17_ChunksWithinMessage ==
    /\ Count(emitted, IsRoleChunk) <= 1
    /\ Count(emitted, IsTerminalChunk) <= 1
    /\ \A i \in 1..Len(emitted) :
         /\ (emitted[i].kind = "chunk" /\ ~IsRoleChunk(emitted[i])) =>
              \E j \in 1..(i - 1) : IsRoleChunk(emitted[j])
         /\ IsTerminalChunk(emitted[i]) =>
              \A j \in (i + 1)..Len(emitted) : emitted[j].kind # "chunk"

ValidRequest(req) ==
    /\ req.messages.t = "array"
    /\ req.messages.v # <<>>
    /\ req.model.t = "string"
    /\ req.model.v # ""

\* C18: validation precedes the backend call: a request that fails validation
\* is answered with a 400 response and no backend call; an accepted request
\* gets exactly one backend call, streaming if `stream` is true and unary
\* otherwise, and no step adds a call after that.
C18_ValidationPrecedesCall ==
    [][ /\ (rpc = "new" /\ rpc' \in {"rejected", "dispatched"}) =>
             IF ValidRequest(openaiRequest)
             THEN /\ rpc' = "dispatched"
                  /\ backendCalls' =
                       <<IF openaiRequest.stream = Bool(TRUE)
                         THEN "stream" ELSE "unary">>
             ELSE /\ rpc' = "rejected"
                  /\ response'.status = 400
                  /\ backendCalls' = <<>>
        /\ rpc # "new" => backendCalls' = backendCalls ]_vars

C18_Witness ==
    /\ rpc = "rejected"
    /\ openaiRequest.messages.t = "array"
    /\ openaiRequest.messages.v # <<>>
    /\ openaiRequest.model = Num(7)
    /\ openaiRequest.stream = Bool(TRUE)
    /\ response.status = 400
    /\ backendCalls = <<>>

====
